---- MODULE Spec2Model ----
(***************************************************************************)
(* Model of EcoShipmentOptimizer (src/main.py): a route graph kept in a    *)
(* networkx DiGraph, two shortest-path queries over it, and the running-   *)
(* bin load planner optimize_load.                                         *)
(*                                                                         *)
(* Numbers.  The per-unit factors of add_route are decimal fractions with  *)
(* two digits (0.1, 0.15, 0.85 ...).  They are written here in hundredths  *)
(* (0.1 is 10, 0.85 is 85), so every emission and cost value of the model  *)
(* is in hundredths as well: 30.8 is 3080, 173.0 is 17300.  Arithmetic is  *)
(* exact.                                                                  *)
(***************************************************************************)
EXTENDS Integers, Sequences, FiniteSets

VARIABLES
  graph,             \* self.graph: [nodes, edges], edges a function from
                     \* <<source, target>> to [distance, emission, cost]
  n_routes,          \* the number of add_route calls made so far
  demands,           \* the caller's demand list (main: demands)
  vehicle_capacity,  \* the caller's capacity (main: vehicle_capacity)
  op,                \* the last call made on the optimizer: [name, args]
  ret                \* its outcome: [status, value], returned or raised

vars == <<graph, n_routes, demands, vehicle_capacity, op, ret>>

(***************************************************************************)
(* Bounds and input sets                                                   *)
(***************************************************************************)
MaxDemands == 4
MaxRoutes == 4

Locations == {"A", "B", "C", "D"}

\* the four routes main() adds, as <<source, target, distance, emission_factor, cost>>
MainRoutes ==
  { <<"A", "B", 100, 10, 100>>,
    <<"B", "C", 50, 20, 50>>,
    <<"A", "C", 140, 15, 85>>,
    <<"C", "D", 60, 18, 90>> }

\* further add_route inputs: a second write of A->B, a reverse edge with zero
\* factors, and an A->C that ties with A->B->C in both weights
OtherRoutes ==
  { <<"A", "B", 50, 40, 85>>,
    <<"B", "A", 100, 0, 0>>,
    <<"A", "C", 100, 20, 125>> }

RouteInputs == MainRoutes \cup OtherRoutes

DemandValues == {0, 20, 30, 40, 50, 60, 70, 120}
Capacities == {60, 100}

\* the demands and capacity of main()
MainDemands == <<30, 40, 20, 50, 30>>
MainCapacity == 100

RECURSIVE SeqsUpTo(_, _)
SeqsUpTo(S, n) ==
  IF n = 0 THEN {<<>>}
  ELSE LET shorter == SeqsUpTo(S, n - 1)
       IN  shorter \cup {Append(q, x) : q \in {r \in shorter : Len(r) = n - 1}, x \in S}

\* every demand list up to MaxDemands long, and the list of main() sorted or not
AllDemands == SeqsUpTo(DemandValues, MaxDemands) \cup {MainDemands, <<50, 40, 30, 30, 20>>}
DemoDemands == {MainDemands, <<120>>}

\* float('inf')
Infinity == 999999999

(***************************************************************************)
(* Load planner                                                            *)
(***************************************************************************)
RECURSIVE Sum(_)
Sum(s) == IF s = <<>> THEN 0 ELSE Head(s) + Sum(Tail(s))

\* insert x into a non-increasing sequence, after the elements >= x
RECURSIVE InsertDesc(_, _)
InsertDesc(x, s) ==
  IF s = <<>> THEN <<x>>
  ELSE IF Head(s) >= x THEN <<Head(s)>> \o InsertDesc(x, Tail(s))
  ELSE <<x>> \o s

RECURSIVE SortedDesc(_)
SortedDesc(s) ==
  IF s = <<>> THEN <<>> ELSE InsertDesc(Head(s), SortedDesc(Tail(s)))

\* variant: demands.sort(reverse=True), sorting the caller's list in place
CallerListAfter_in_place(d) == SortedDesc(d)

\* what the caller's list object holds once optimize_load has returned:
\* sorted() builds a new list and rebinds the local name

CallerListAfter(d) == d

\* variants of the fit test: one forgets the load already in the bin, one
\* turns <= into <
Fits_ignoring_load(current_vehicle_load, demand, capacity) ==
  demand <= capacity

Fits_strict(current_vehicle_load, demand, capacity) ==
  Sum(current_vehicle_load) + demand < capacity

Fits(current_vehicle_load, demand, capacity) ==
  Sum(current_vehicle_load) + demand <= capacity

\* variant: the last open bin is never emitted
FinalFlush_dropped(load_plans, current_vehicle_load) == load_plans

FinalFlush(load_plans, current_vehicle_load) ==
  IF current_vehicle_load # <<>>
  THEN Append(load_plans, current_vehicle_load)
  ELSE load_plans

RECURSIVE PackFrom(_, _, _, _, _)
PackFrom(sorted, i, load_plans, current_vehicle_load, capacity) ==
  IF i > Len(sorted) THEN FinalFlush(load_plans, current_vehicle_load)
  ELSE IF Fits(current_vehicle_load, sorted[i], capacity)
  THEN PackFrom(sorted, i + 1, load_plans,
                Append(current_vehicle_load, sorted[i]), capacity)
  ELSE PackFrom(sorted, i + 1, Append(load_plans, current_vehicle_load),
                <<sorted[i]>>, capacity)

optimize_load(d, capacity) == PackFrom(SortedDesc(d), 1, <<>>, <<>>, capacity)

(***************************************************************************)
(* Route graph                                                             *)
(***************************************************************************)
\* variant: the factor is stored without multiplying by the distance
Emission_factor_only(distance, emission_factor) == emission_factor

Emission(distance, emission_factor) == emission_factor * distance

Cost(distance, cost) == cost * distance

EdgeAttrs(distance, emission_factor, cost) ==
  [distance |-> distance,
   emission |-> Emission(distance, emission_factor),
   cost     |-> Cost(distance, cost)]

\* variant: the route is entered in both directions
add_edge_both_ways(G, source, target, attrs) ==
  [nodes |-> G.nodes \cup {source, target},
   edges |-> [p \in DOMAIN G.edges \cup {<<source, target>>, <<target, source>>} |->
                IF p \in {<<source, target>>, <<target, source>>}
                THEN attrs ELSE G.edges[p]]]

\* DiGraph.add_edge: both end points become nodes; the edge's attributes are
\* set to the ones given (all three keys are given on every call)
add_edge(G, source, target, attrs) ==
  [nodes |-> G.nodes \cup {source, target},
   edges |-> [p \in DOMAIN G.edges \cup {<<source, target>>} |->
                IF p = <<source, target>> THEN attrs ELSE G.edges[p]]]

Successors(G, v) == {u \in G.nodes : <<v, u>> \in DOMAIN G.edges}

EdgeWeight(G, v, u, weight) ==
  IF weight = "emission" THEN G.edges[<<v, u>>].emission ELSE G.edges[<<v, u>>].cost

(***************************************************************************)
(* Dijkstra's algorithm as networkx runs it.  A run is                     *)
(*   dist  : the final distance of each node popped so far,                *)
(*   seen  : the best distance found so far of each node reached,          *)
(*   paths : the path recorded for each node reached.                      *)
(* The heap pops a reached, not yet final node of least seen distance;     *)
(* among several such the order is the library's, so every choice is a     *)
(* run.  Dijkstra(...) is the set of final runs.                           *)
(***************************************************************************)
MinSeen(run, fringe) ==
  CHOOSE m \in {run.seen[v] : v \in fringe} :
    \A v \in fringe : m <= run.seen[v]

Improves(run, u, vu_dist) ==
  u \notin DOMAIN run.seen \/ vu_dist < run.seen[u]

Relax(G, weight, v, run) ==
  LET better == {u \in Successors(G, v) :
                   /\ u \notin DOMAIN run.dist
                   /\ Improves(run, u, run.dist[v] + EdgeWeight(G, v, u, weight))}
  IN  [dist  |-> run.dist,
       seen  |-> [u \in DOMAIN run.seen \cup better |->
                    IF u \in better
                    THEN run.dist[v] + EdgeWeight(G, v, u, weight)
                    ELSE run.seen[u]],
       paths |-> [u \in DOMAIN run.paths \cup better |->
                    IF u \in better
                    THEN Append(run.paths[v], u)
                    ELSE run.paths[u]]]

Pop(v, run) ==
  [run EXCEPT !.dist = [u \in DOMAIN run.dist \cup {v} |->
                          IF u = v THEN run.seen[v] ELSE run.dist[u]]]

RECURSIVE DijkstraFrom(_, _, _, _)
DijkstraFrom(G, weight, target, run) ==
  LET fringe == DOMAIN run.seen \ DOMAIN run.dist
  IN  IF fringe = {} THEN {run}
      ELSE UNION { IF v = target
                   THEN {Pop(v, run)}
                   ELSE DijkstraFrom(G, weight, target, Relax(G, weight, v, Pop(v, run)))
                   : v \in {w \in fringe : run.seen[w] = MinSeen(run, fringe)} }

Dijkstra(G, source, target, weight) ==
  DijkstraFrom(G, weight, target,
               [dist  |-> <<>>,
                seen  |-> [u \in {source} |-> 0],
                paths |-> [u \in {source} |-> <<source>>]])

Raised(exc) == [status |-> "raised", value |-> exc]
Returned(v) == [status |-> "returned", value |-> v]

\* nx.shortest_path(G, source, target, weight=...): a source that is not a node
\* raises NodeNotFound; a target that is not a node raises NodeNotFound or
\* NetworkXNoPath, by library version; a target never popped raises
\* NetworkXNoPath.
shortest_path(G, source, target, weight) ==
  IF source \notin G.nodes THEN {Raised("NodeNotFound")}
  ELSE IF target \notin G.nodes
  THEN {Raised("NodeNotFound"), Raised("NetworkXNoPath")}
  ELSE { IF target \in DOMAIN run.dist
         THEN Returned(run.paths[target])
         ELSE Raised("NetworkXNoPath") : run \in Dijkstra(G, source, target, weight) }

\* nx.shortest_path_length(G, source, target, weight=...)
shortest_path_length(G, source, target, weight) ==
  IF source \notin G.nodes THEN {Raised("NodeNotFound")}
  ELSE IF target \notin G.nodes
  THEN {Raised("NodeNotFound"), Raised("NetworkXNoPath")}
  ELSE { IF target \in DOMAIN run.dist
         THEN Returned(run.dist[target])
         ELSE Raised("NetworkXNoPath") : run \in Dijkstra(G, source, target, weight) }

\* variant: every library exception is turned into the sentinel
Caught_any(exc) == TRUE

\* except nx.NetworkXNoPath
Caught(exc) == exc = "NetworkXNoPath"

Sentinel == Returned(<< <<>>, Infinity >>)

\* the try block and except clause of the two query methods, which differ in
\* the weight they name: the set of outcomes of one call
try_shortest_path(G, source, target, weight) ==
  LET after_path(p) ==
        IF p.status = "raised"
        THEN {IF Caught(p.value) THEN Sentinel ELSE p}
        ELSE { IF l.status = "raised"
               THEN (IF Caught(l.value) THEN Sentinel ELSE l)
               ELSE Returned(<<p.value, l.value>>)
               : l \in shortest_path_length(G, source, target, weight) }
  IN  UNION { after_path(p) : p \in shortest_path(G, source, target, weight) }

\* variants: a query that names the other query's weight
calculate_min_emission_path_by_cost(G, source, target) ==
  try_shortest_path(G, source, target, "cost")

calculate_min_cost_path_by_emission(G, source, target) ==
  try_shortest_path(G, source, target, "emission")

calculate_min_emission_path(G, source, target) ==
  try_shortest_path(G, source, target, "emission")

calculate_min_cost_path(G, source, target) ==
  try_shortest_path(G, source, target, "cost")

(***************************************************************************)
(* State machine                                                           *)
(***************************************************************************)
EmptyGraph == [nodes |-> {}, edges |-> <<>>]

NoCall == [name |-> "init", args |-> <<>>]
NoReturn == [status |-> "none", value |-> <<>>]

InitWith(D, C) ==
  /\ graph = EmptyGraph
  /\ n_routes = 0
  /\ demands \in D
  /\ vehicle_capacity \in C
  /\ op = NoCall
  /\ ret = NoReturn

Init == InitWith(DemoDemands, {MainCapacity})
InitLoad == InitWith(AllDemands, Capacities)

OptimizeLoad ==
  /\ op' = [name |-> "optimize_load", args |-> <<demands, vehicle_capacity>>]
  /\ ret' = [status |-> "returned", value |-> optimize_load(demands, vehicle_capacity)]
  /\ demands' = CallerListAfter(demands)
  /\ UNCHANGED <<graph, n_routes, vehicle_capacity>>

NextLoad == OptimizeLoad
SpecLoad == InitLoad /\ [][NextLoad]_vars

AddRoute ==
  /\ n_routes < MaxRoutes
  /\ \E r \in RouteInputs :
       /\ graph' = add_edge(graph, r[1], r[2], EdgeAttrs(r[3], r[4], r[5]))
       /\ op' = [name |-> "add_route", args |-> r]
  /\ n_routes' = n_routes + 1
  /\ ret' = Returned(<<>>)
  /\ UNCHANGED <<demands, vehicle_capacity>>

MinEmissionPath ==
  \E source \in Locations, target \in Locations :
    /\ op' = [name |-> "min_emission", args |-> <<source, target>>]
    /\ ret' \in calculate_min_emission_path(graph, source, target)
    /\ UNCHANGED <<graph, n_routes, demands, vehicle_capacity>>

MinCostPath ==
  \E source \in Locations, target \in Locations :
    /\ op' = [name |-> "min_cost", args |-> <<source, target>>]
    /\ ret' \in calculate_min_cost_path(graph, source, target)
    /\ UNCHANGED <<graph, n_routes, demands, vehicle_capacity>>

Next == AddRoute \/ MinEmissionPath \/ MinCostPath \/ OptimizeLoad
Spec == Init /\ [][Next]_vars


(***************************************************************************)
(* Load planner properties (SpecLoad)                                      *)
(***************************************************************************)
IsLoadCall == op.name = "optimize_load"
ArgDemands == op.args[1]
ArgCapacity == op.args[2]
Plans == ret.value

RECURSIVE Flatten(_)
Flatten(plans) == IF plans = <<>> THEN <<>> ELSE Head(plans) \o Flatten(Tail(plans))

Range(s) == {s[i] : i \in 1..Len(s)}
Count(v, s) == Cardinality({i \in 1..Len(s) : s[i] = v})
NonIncreasing(s) == \A i \in 1..(Len(s) - 1) : s[i] >= s[i + 1]

\* C1: every returned load plan has sum <= capacity, except a plan made of
\* exactly one demand that alone exceeds the capacity; a demand above the
\* capacity is always alone in its plan.
C1_PlansWithinCapacity ==
  IsLoadCall =>
    \A i \in 1..Len(Plans) :
      /\ \/ Sum(Plans[i]) <= ArgCapacity
         \/ Len(Plans[i]) = 1 /\ Plans[i][1] > ArgCapacity
      /\ \A k \in 1..Len(Plans[i]) :
           Plans[i][k] > ArgCapacity => Len(Plans[i]) = 1

C1_Witness ==
  /\ IsLoadCall
  /\ \E i \in 1..Len(Plans) : Len(Plans[i]) = 1 /\ Plans[i][1] > ArgCapacity
  /\ \E i \in 1..Len(Plans) : Len(Plans[i]) >= 2 /\ Sum(Plans[i]) = ArgCapacity

\* C2: the demands of all returned load plans together are exactly the
\* multiset of the input demands: nothing lost, duplicated or changed.
C2_DemandsPreserved ==
  IsLoadCall =>
    \A v \in Range(ArgDemands) \cup Range(Flatten(Plans)) :
      Count(v, ArgDemands) = Count(v, Flatten(Plans))

C2_Witness ==
  /\ IsLoadCall
  /\ Len(Plans) >= 3
  /\ \E v \in Range(ArgDemands) : Count(v, ArgDemands) >= 2
  /\ \E v \in Range(ArgDemands) : v > ArgCapacity

\* C6: a single demand d above the capacity yields exactly one plan, [[d]].
C6_SingleOverCapacityAlone ==
  (IsLoadCall /\ Len(ArgDemands) = 1 /\ ArgDemands[1] > ArgCapacity)
    => Plans = <<ArgDemands>>

\* the running-bin pass, stated on its result: the plans in order spell the
\* demands in non-increasing order; a demand sits behind others in a bin only
\* where the bin's sum with it is <= capacity (the first bin opens empty, so
\* this holds for its first demand too); a bin is closed only by a demand that
\* did not fit it; the bin open at the end is emitted only when non-empty.
IsRunningBinPlan(plans, d, capacity) ==
  /\ NonIncreasing(Flatten(plans))
  /\ Len(Flatten(plans)) = Len(d)
  /\ \A v \in Range(d) : Count(v, d) = Count(v, Flatten(plans))
  /\ \A i \in 1..Len(plans) :
       /\ plans[i] = <<>> => i = 1 /\ Len(plans) >= 2
       /\ \A k \in 1..Len(plans[i]) :
            (i = 1 \/ k >= 2) => Sum(SubSeq(plans[i], 1, k)) <= capacity
       /\ i >= 2 => Sum(plans[i - 1]) + plans[i][1] > capacity

\* C7: optimize_load is the single running-bin greedy pass over the demands
\* sorted in descending order; [50,40,30,30,20] with capacity 100 gives
\* [[50,40],[30,30,20]] and [70,60,30] gives [[70],[60,30]].
C7_RunningBinPass ==
  IsLoadCall =>
    /\ IsRunningBinPlan(Plans, ArgDemands, ArgCapacity)
    /\ (ArgDemands \in {<<50, 40, 30, 30, 20>>, MainDemands} /\ ArgCapacity = 100)
         => Plans = << <<50, 40>>, <<30, 30, 20>> >>
    /\ (ArgDemands = <<70, 60, 30>> /\ ArgCapacity = 100)
         => Plans = << <<70>>, <<60, 30>> >>

C7_Witness ==
  /\ IsLoadCall
  /\ ArgDemands = <<70, 60, 30>>
  /\ ArgCapacity = 100
  /\ Plans = << <<70>>, <<60, 30>> >>
(***************************************************************************)
(* Route graph and path query properties (Spec)                            *)
(***************************************************************************)
IsQuery == op.name \in {"min_emission", "min_cost"}
QuerySource == op.args[1]
QueryTarget == op.args[2]
QueryWeight == IF op.name = "min_emission" THEN "emission" ELSE "cost"

\* the nodes a directed path leads to from the nodes of `from`
RECURSIVE ReachableFrom(_, _)
ReachableFrom(G, from) ==
  LET more == from \cup UNION {Successors(G, v) : v \in from}
  IN  IF more = from THEN from ELSE ReachableFrom(G, more)

Reachable(G, source, target) ==
  /\ source \in G.nodes
  /\ target \in ReachableFrom(G, {source})

\* every path from the end of `path` to target that visits no node twice;
\* with weights >= 0 a path that repeats a node weighs no less than the one
\* with the repetition cut out
RECURSIVE SimplePaths(_, _, _)
SimplePaths(G, path, target) ==
  IF path[Len(path)] = target THEN {path}
  ELSE UNION { SimplePaths(G, Append(path, u), target)
               : u \in Successors(G, path[Len(path)]) \ Range(path) }

PathWeight(G, path, weight) ==
  Sum([i \in 1..(Len(path) - 1) |-> EdgeWeight(G, path[i], path[i + 1], weight)])

FollowsEdges(G, path) ==
  \A i \in 1..(Len(path) - 1) : <<path[i], path[i + 1]>> \in DOMAIN G.edges

\* C3: a query between locations with no directed path from source to target,
\* known to the graph or not, returns the sentinel (empty path, infinity) and
\* raises nothing.  Stated for two different locations, where "no path" has
\* one reading.
C3_UnreachableGivesSentinel ==
  (/\ IsQuery
   /\ QuerySource # QueryTarget
   /\ ~Reachable(graph, QuerySource, QueryTarget)) => ret = Sentinel

\* C4: for a reachable target the query returns a path from source to target
\* along existing edges, whose weight is the returned total and is <= the
\* weight of every source-to-target path.
C4_ReturnsMinimumWeightPath ==
  (IsQuery /\ Reachable(graph, QuerySource, QueryTarget)) =>
    /\ ret.status = "returned"
    /\ LET path == ret.value[1]
           total == ret.value[2]
       IN  /\ Len(path) >= 1
           /\ path[1] = QuerySource
           /\ path[Len(path)] = QueryTarget
           /\ FollowsEdges(graph, path)
           /\ PathWeight(graph, path, QueryWeight) = total
           /\ \A q \in SimplePaths(graph, <<QuerySource>>, QueryTarget) :
                total <= PathWeight(graph, q, QueryWeight)

C4_Witness ==
  /\ IsQuery
  /\ Reachable(graph, QuerySource, QueryTarget)
  /\ ret.status = "returned"
  /\ Len(ret.value[1]) >= 3
  /\ \E q \in SimplePaths(graph, <<QuerySource>>, QueryTarget) :
       /\ Len(q) < Len(ret.value[1])
       /\ PathWeight(graph, q, QueryWeight) > ret.value[2]

\* the graph holds exactly the four routes main() adds (among the add_route
\* inputs each of them is told by its end points and distance)
IsMainGraph ==
  /\ graph.nodes = {"A", "B", "C", "D"}
  /\ DOMAIN graph.edges = {<<r[1], r[2]>> : r \in MainRoutes}
  /\ \A r \in MainRoutes : graph.edges[<<r[1], r[2]>>].distance = r[3]

\* C5 as stated: on the graph of main(), the minimum-emission query from A to
\* D returns the path [A, C, D] with total emission 31.8.
C5_EmissionPathViaC ==
  (IsMainGraph /\ op = [name |-> "min_emission", args |-> <<"A", "D">>])
    => ret = Returned(<< <<"A", "C", "D">>, 3180 >>)

\* C5 amended: on the graph of main(), the minimum-emission query from A to D
\* returns the path [A, B, C, D] with total emission 10 + 10 + 10.8 = 30.8.
C5_EmissionPathViaBC ==
  (IsMainGraph /\ op = [name |-> "min_emission", args |-> <<"A", "D">>])
    => ret = Returned(<< <<"A", "B", "C", "D">>, 3080 >>)

C5_Witness ==
  /\ IsMainGraph
  /\ op = [name |-> "min_emission", args |-> <<"A", "D">>]
  /\ ret.status = "returned"
  /\ PathWeight(graph, <<"A", "C", "D">>, "emission") = 3180

\* C8: on the graph of main(), the minimum-cost query from A to D returns the
\* path [A, C, D] with total cost 173.0.
C8_CostPathViaC ==
  (IsMainGraph /\ op = [name |-> "min_cost", args |-> <<"A", "D">>])
    => ret = Returned(<< <<"A", "C", "D">>, 17300 >>)

C8_Witness ==
  /\ IsMainGraph
  /\ op = [name |-> "min_cost", args |-> <<"A", "D">>]
  /\ ret.status = "returned"
  /\ PathWeight(graph, <<"A", "B", "C", "D">>, "cost") = 17900

\* C9: add_route(source, target, distance, emission_factor, cost) leaves the
\* edge source->target with exactly distance, emission_factor x distance and
\* cost x distance, whatever it held before, and creates or alters no other
\* edge, the reverse edge included; no other call touches an edge, so an
\* edge always carries the values of the latest add_route for its pair.
C9_LastWriteWins ==
  [][ /\ op'.name = "add_route" =>
           LET written == <<op'.args[1], op'.args[2]>>
           IN  /\ DOMAIN graph'.edges = DOMAIN graph.edges \cup {written}
               /\ graph'.edges[written] =
                    [distance |-> op'.args[3],
                     emission |-> op'.args[4] * op'.args[3],
                     cost     |-> op'.args[5] * op'.args[3]]
               /\ \A p \in DOMAIN graph.edges \ {written} :
                    graph'.edges[p] = graph.edges[p]
      /\ op'.name # "add_route" => graph'.edges = graph.edges
    ]_vars

C9_Witness ==
  /\ op = [name |-> "add_route", args |-> <<"A", "B", 50, 40, 85>>]
  /\ n_routes > Cardinality(DOMAIN graph.edges)
  /\ DOMAIN graph.edges = {<<"A", "B">>, <<"B", "C">>}
  /\ graph.edges[<<"A", "B">>] = [distance |-> 50, emission |-> 2000, cost |-> 4250]
  /\ graph.edges[<<"B", "C">>] = [distance |-> 50, emission |-> 1000, cost |-> 2500]

\* C10: only add_route changes the graph: a path query, whatever it returns
\* or raises, and optimize_load leave nodes, edges and weights as they were;
\* optimize_load leaves the caller's demand list as it was, and its result is
\* the one plan its two arguments determine, whatever was called before.
C10_OnlyAddRouteChangesState ==
  [][ /\ op'.name # "add_route" => graph' = graph
      /\ op'.name = "optimize_load" =>
           /\ demands' = demands
           /\ ret'.status = "returned"
           /\ IsRunningBinPlan(ret'.value, demands, vehicle_capacity)
    ]_vars

C10_Witness ==
  /\ IsLoadCall
  /\ Cardinality(DOMAIN graph.edges) >= 2
  /\ demands = MainDemands
  /\ ArgDemands = MainDemands
  /\ Plans = << <<50, 40>>, <<30, 30, 20>> >>
====
